---- MODULE Spec2Model ----
(***************************************************************************)
(* Model of models.py: the four network constructors (vgg19,              *)
(* vgg19_fc7_to_prob, vgg19_fc8_to_prob, jeffrey_df) and load_weights.    *)
(*                                                                         *)
(* A program counter holds the function being run and the source line it  *)
(* is at.  Every layer-creating assignment of a constructor is one step;  *)
(* load_weights and the inline load of jeffrey_df are one step each.      *)
(* Layers are records; a layer refers to its inputs by their dictionary   *)
(* key, which stands for the object's identity.  Shapes are tuples of     *)
(* integers, with NoneDim for a dimension unknown at construction.        *)
(* An optional Python value is None (the empty tuple) or Some(v).         *)
(***************************************************************************)
EXTENDS Integers, Sequences, FiniteSets, TLC

VARIABLES
    pc,       \* [fn, line]: the function being run and its next source line
    args,     \* the arguments of the constructor call
    net,      \* the constructor's dictionary: key -> layer
    order,    \* the keys of net in creation order
    values,   \* the shared variables: <<key, name>> -> array
    disk,     \* the content of the file the call names
    opened,   \* the file names opened so far
    passes,   \* the calls of set_all_param_values so far
    loads,    \* the layers handed to a weight loading so far, one per load
    exc       \* the exception that ended the call, "" when none

vars == <<pc, args, net, order, values, disk, opened, passes, loads, exc>>

----------------------------------------------------------------------------
(* Bounds of the inputs the model enumerates. *)

MaxClasses == 2
MaxBatch == 2

(* The dropout probabilities tried for p, in tenths (0 is 0.0, 5 is 0.5). *)
PValues == {0, 5}

----------------------------------------------------------------------------
(* Python values. *)

None == <<>>
Some(v) == <<v>>
Val(o) == o[1]

(* The unknown dimension in a shape, written None in the source. *)
NoneDim == -1

(* Default image width and height of jeffrey_df. *)
width == 512
height == 512

RECURSIVE Prod(_)
Prod(s) == IF s = <<>> THEN 1 ELSE Head(s) * Prod(Tail(s))

Known(s) == \A i \in 1..Len(s) : s[i] # NoneDim

(* The number of elements of a shape, None when a dimension is unknown. *)
Size(s) == IF Known(s) THEN Some(Prod(s)) ELSE None

Error(name) == [kind |-> "error", exc |-> name]

IsError(l) == l.kind = "error"

----------------------------------------------------------------------------
(* The layer classes of the library, as far as the constructors use them:  *)
(* what a layer consumes, the shape it produces, the parameters it owns.   *)
(* A constructor that the library makes raise yields Error(name).          *)
(* Initialisers (Orthogonal, Constant) set values, not shapes, and every   *)
(* fresh parameter holds the value InitArray below.                        *)

Layer(kind, incomings, shape, params, nonlinearity, p) ==
    [kind |-> kind, key |-> "", input_layers |-> incomings,
     output_shape |-> shape, params |-> params,
     nonlinearity |-> nonlinearity, p |-> p]

Param(name, shape) == [name |-> name, shape |-> shape]

InputLayer(shape) == Layer("input", <<>>, shape, <<>>, "none", None)

Pad(n) == [mode |-> "int", n |-> n]
Same == [mode |-> "same", n |-> 0]

(* lasagne.layers.conv.conv_output_length *)
conv_output_length(input_length, filter_size, stride, pad) ==
    LET out == IF pad.mode = "same" THEN input_length
               ELSE input_length + 2 * pad.n - filter_size + 1
    IN (out + stride - 1) \div stride

ConvLayer(incoming, num_filters, filter_size, stride, pad, untie, nonlinearity) ==
    LET ishape == incoming.output_shape
        oh == conv_output_length(ishape[3], filter_size, stride, pad)
        ow == conv_output_length(ishape[4], filter_size, stride, pad)
        W == Param("W", <<num_filters, ishape[2], filter_size, filter_size>>)
        b == Param("b", IF untie THEN <<num_filters, oh, ow>>
                        ELSE <<num_filters>>)
    IN Layer("conv", <<incoming.key>>, <<ishape[1], num_filters, oh, ow>>,
             <<W, b>>, nonlinearity, None)

(* lasagne.layers.pool.pool_output_length with ignore_border=True, pad=0 *)
pool_output_length(input_length, pool_size, stride) ==
    (input_length - pool_size + 1 + stride - 1) \div stride

PoolLayer(incoming, pool_size, stride) ==
    LET ishape == incoming.output_shape
    IN Layer("pool", <<incoming.key>>,
             <<ishape[1], ishape[2],
               pool_output_length(ishape[3], pool_size, stride),
               pool_output_length(ishape[4], pool_size, stride)>>,
             <<>>, "none", None)

DenseLayer(incoming, num_units, nonlinearity) ==
    LET ishape == incoming.output_shape
        num_inputs == Prod(Tail(ishape))
    IN Layer("dense", <<incoming.key>>, <<ishape[1], num_units>>,
             <<Param("W", <<num_inputs, num_units>>),
               Param("b", <<num_units>>)>>,
             nonlinearity, None)

DropoutLayer(incoming, p) ==
    Layer("dropout", <<incoming.key>>, incoming.output_shape, <<>>, "none",
          Some(p))

NonlinearityLayer(incoming, nonlinearity) ==
    Layer("nonlinearity", <<incoming.key>>, incoming.output_shape, <<>>,
          nonlinearity, None)

(* FeaturePoolLayer over axis 1: the feature count must divide. *)
FeaturePoolLayer(incoming, pool_size) ==
    LET ishape == incoming.output_shape
    IN IF ishape[2] % pool_size # 0 THEN Error("ValueError")
       ELSE Layer("featurepool", <<incoming.key>>,
                  <<ishape[1], ishape[2] \div pool_size>>, <<>>, "none", None)

(* Two dimensions agree when either is unknown or they are equal. *)
DimMatch(a, b) == a = NoneDim \/ b = NoneDim \/ a = b

(* ConcatLayer of two 2-d inputs along axis 1. *)
ConcatLayer(first, second) ==
    LET s1 == first.output_shape
        s2 == second.output_shape
    IN IF Len(s1) # Len(s2) \/ ~DimMatch(s1[1], s2[1])
       THEN Error("ValueError")
       ELSE Layer("concat", <<first.key, second.key>>,
                  <<IF s1[1] # NoneDim THEN s1[1] ELSE s2[1], s1[2] + s2[2]>>,
                  <<>>, "none", None)

(* ReshapeLayer.get_output_shape_for for a specification (-1, cols): the   *)
(* row count is the input size over cols when the input size is known,     *)
(* and a total that does not match is a ValueError.                        *)
ReshapeShape(ishape, cols) ==
    IF cols = 0 \/ cols < -1 THEN Error("ValueError")
    ELSE IF Size(ishape) = None THEN [kind |-> "shape", shape |-> <<NoneDim, cols>>]
    ELSE LET rows == Val(Size(ishape)) \div cols
         IN IF rows * cols # Val(Size(ishape)) THEN Error("ValueError")
            ELSE [kind |-> "shape", shape |-> <<rows, cols>>]

ReshapeLayer(incoming, cols) ==
    LET r == ReshapeShape(incoming.output_shape, cols)
    IN IF IsError(r) THEN r
       ELSE Layer("reshape", <<incoming.key>>, r.shape, <<>>, "none", None)

----------------------------------------------------------------------------
(* The constructors.  Each is the statement at a source line: the key it   *)
(* assigns and the layer it builds from the dictionary nt so far.  input_var  *)
(* is a symbolic variable and plays no part in the graph's structure.      *)

MaxPool2DDNNLayer(incoming, pool_size, stride) ==
    PoolLayer(incoming, pool_size, stride)

(* vgg19, the statements up to fc6 *)
vgg19_features(line, nt) ==
    CASE line = 55 -> <<"input", InputLayer(<<NoneDim, 3, 224, 224>>)>>
      [] line = 56 -> <<"conv1_1", ConvLayer(nt["input"], 64, 3, 1, Pad(1), FALSE, "rectify")>>
      [] line = 57 -> <<"conv1_2", ConvLayer(nt["conv1_1"], 64, 3, 1, Pad(1), FALSE, "rectify")>>
      [] line = 58 -> <<"pool1", PoolLayer(nt["conv1_2"], 2, 2)>>
      [] line = 59 -> <<"conv2_1", ConvLayer(nt["pool1"], 128, 3, 1, Pad(1), FALSE, "rectify")>>
      [] line = 60 -> <<"conv2_2", ConvLayer(nt["conv2_1"], 128, 3, 1, Pad(1), FALSE, "rectify")>>
      [] line = 61 -> <<"pool2", PoolLayer(nt["conv2_2"], 2, 2)>>
      [] line = 62 -> <<"conv3_1", ConvLayer(nt["pool2"], 256, 3, 1, Pad(1), FALSE, "rectify")>>
      [] line = 63 -> <<"conv3_2", ConvLayer(nt["conv3_1"], 256, 3, 1, Pad(1), FALSE, "rectify")>>
      [] line = 64 -> <<"conv3_3", ConvLayer(nt["conv3_2"], 256, 3, 1, Pad(1), FALSE, "rectify")>>
      [] line = 65 -> <<"conv3_4", ConvLayer(nt["conv3_3"], 256, 3, 1, Pad(1), FALSE, "rectify")>>
      [] line = 66 -> <<"pool3", PoolLayer(nt["conv3_4"], 2, 2)>>
      [] line = 67 -> <<"conv4_1", ConvLayer(nt["pool3"], 512, 3, 1, Pad(1), FALSE, "rectify")>>
      [] line = 68 -> <<"conv4_2", ConvLayer(nt["conv4_1"], 512, 3, 1, Pad(1), FALSE, "rectify")>>
      [] line = 69 -> <<"conv4_3", ConvLayer(nt["conv4_2"], 512, 3, 1, Pad(1), FALSE, "rectify")>>
      [] line = 70 -> <<"conv4_4", ConvLayer(nt["conv4_3"], 512, 3, 1, Pad(1), FALSE, "rectify")>>
      [] line = 71 -> <<"pool4", PoolLayer(nt["conv4_4"], 2, 2)>>
      [] line = 72 -> <<"conv5_1", ConvLayer(nt["pool4"], 512, 3, 1, Pad(1), FALSE, "rectify")>>
      [] line = 73 -> <<"conv5_2", ConvLayer(nt["conv5_1"], 512, 3, 1, Pad(1), FALSE, "rectify")>>
      [] line = 74 -> <<"conv5_3", ConvLayer(nt["conv5_2"], 512, 3, 1, Pad(1), FALSE, "rectify")>>
      [] line = 75 -> <<"conv5_4", ConvLayer(nt["conv5_3"], 512, 3, 1, Pad(1), FALSE, "rectify")>>
      [] line = 76 -> <<"pool5", PoolLayer(nt["conv5_4"], 2, 2)>>
      [] line = 77 -> <<"fc6", DenseLayer(nt["pool5"], 4096, "rectify")>>

(* The branch taken on the truth value of p: 0.0 counts as no dropout. *)
vgg19_branch_truthy(p) == IF p = None \/ Val(p) = 0 THEN 80 ELSE 85

(* vgg19, "if p is None": the line the branch continues at *)
vgg19_branch(p) == IF p = None THEN 80 ELSE 85

(* The dropout branch with fc7 sized like fc8. *)
vgg19_classifier_narrow(line, nt, n_classes, p) ==
    CASE line = 80 -> <<"fc7", DenseLayer(nt["fc6"], 4096, "rectify")>>
      [] line = 81 -> <<"fc8", DenseLayer(nt["fc7"], n_classes, "none")>>
      [] line = 85 -> <<"dropout1", DropoutLayer(nt["fc6"], Val(p))>>
      [] line = 86 -> <<"fc7", DenseLayer(nt["dropout1"], n_classes, "rectify")>>
      [] line = 87 -> <<"dropout2", DropoutLayer(nt["fc7"], Val(p))>>
      [] line = 88 -> <<"fc8", DenseLayer(nt["dropout2"], n_classes, "none")>>
      [] line = 90 -> <<"prob", NonlinearityLayer(nt["fc8"], "softmax")>>

(* vgg19, the two branches and the softmax *)
vgg19_classifier(line, nt, n_classes, p) ==
    CASE line = 80 -> <<"fc7", DenseLayer(nt["fc6"], 4096, "rectify")>>
      [] line = 81 -> <<"fc8", DenseLayer(nt["fc7"], n_classes, "none")>>
      [] line = 85 -> <<"dropout1", DropoutLayer(nt["fc6"], Val(p))>>
      [] line = 86 -> <<"fc7", DenseLayer(nt["dropout1"], 4096, "rectify")>>
      [] line = 87 -> <<"dropout2", DropoutLayer(nt["fc7"], Val(p))>>
      [] line = 88 -> <<"fc8", DenseLayer(nt["dropout2"], n_classes, "none")>>
      [] line = 90 -> <<"prob", NonlinearityLayer(nt["fc8"], "softmax")>>

vgg19(line, nt, n_classes, p) ==
    IF line <= 77 THEN vgg19_features(line, nt)
    ELSE vgg19_classifier(line, nt, n_classes, p)

vgg19_fc7_to_prob(line, nt, n_classes) ==
    CASE line = 122 -> <<"input", InputLayer(<<NoneDim, 4096>>)>>
      [] line = 123 -> <<"fc7", DenseLayer(nt["input"], 4096, "rectify")>>
      [] line = 124 -> <<"fc8", DenseLayer(nt["fc7"], n_classes, "none")>>
      [] line = 125 -> <<"prob", NonlinearityLayer(nt["fc8"], "softmax")>>

(* vgg19_fc8_to_prob with the 1000 ImageNet classes, n_classes unused. *)
vgg19_fc8_to_prob_imagenet(line, nt, n_classes) ==
    CASE line = 160 -> <<"input", InputLayer(<<NoneDim, 4096>>)>>
      [] line = 161 -> <<"fc8", DenseLayer(nt["input"], 1000, "none")>>
      [] line = 163 -> <<"prob", NonlinearityLayer(nt["fc8"], "softmax")>>

vgg19_fc8_to_prob(line, nt, n_classes) ==
    CASE line = 160 -> <<"input", InputLayer(<<NoneDim, 4096>>)>>
      [] line = 161 -> <<"fc8", DenseLayer(nt["input"], n_classes, "none")>>
      [] line = 163 -> <<"prob", NonlinearityLayer(nt["fc8"], "softmax")>>

BatchDim(batch_size) == IF batch_size = None THEN NoneDim ELSE Val(batch_size)

(* jeffrey_df, the image branch up to the first feature pooling *)
jeffrey_df_features(line, nt, batch_size) ==
    CASE line = 210 -> <<"0", InputLayer(<<BatchDim(batch_size), 3, width, height>>)>>
      [] line = 212 -> <<"1", ConvLayer(nt["0"], 32, 7, 2, Same, TRUE, "leaky_rectify")>>
      [] line = 217 -> <<"2", MaxPool2DDNNLayer(nt["1"], 3, 2)>>
      [] line = 218 -> <<"3", ConvLayer(nt["2"], 32, 3, 1, Same, TRUE, "leaky_rectify")>>
      [] line = 223 -> <<"4", ConvLayer(nt["3"], 32, 3, 1, Same, TRUE, "leaky_rectify")>>
      [] line = 228 -> <<"5", MaxPool2DDNNLayer(nt["4"], 3, 2)>>
      [] line = 229 -> <<"6", ConvLayer(nt["5"], 64, 3, 1, Same, TRUE, "leaky_rectify")>>
      [] line = 234 -> <<"7", ConvLayer(nt["6"], 64, 3, 1, Same, TRUE, "leaky_rectify")>>
      [] line = 239 -> <<"8", MaxPool2DDNNLayer(nt["7"], 3, 2)>>
      [] line = 240 -> <<"9", ConvLayer(nt["8"], 128, 3, 1, Same, TRUE, "leaky_rectify")>>
      [] line = 245 -> <<"10", ConvLayer(nt["9"], 128, 3, 1, Same, TRUE, "leaky_rectify")>>
      [] line = 250 -> <<"11", ConvLayer(nt["10"], 128, 3, 1, Same, TRUE, "leaky_rectify")>>
      [] line = 255 -> <<"12", ConvLayer(nt["11"], 128, 3, 1, Same, TRUE, "leaky_rectify")>>
      [] line = 260 -> <<"13", MaxPool2DDNNLayer(nt["12"], 3, 2)>>
      [] line = 261 -> <<"14", ConvLayer(nt["13"], 256, 3, 1, Same, TRUE, "leaky_rectify")>>
      [] line = 266 -> <<"15", ConvLayer(nt["14"], 256, 3, 1, Same, TRUE, "leaky_rectify")>>
      [] line = 271 -> <<"16", ConvLayer(nt["15"], 256, 3, 1, Same, TRUE, "leaky_rectify")>>
      [] line = 276 -> <<"17", ConvLayer(nt["16"], 256, 3, 1, Same, TRUE, "leaky_rectify")>>
      [] line = 281 -> <<"18", MaxPool2DDNNLayer(nt["17"], 3, 2)>>
      [] line = 283 -> <<"19", DropoutLayer(nt["18"], 5)>>
      [] line = 284 -> <<"20", DenseLayer(nt["19"], 1024, "none")>>
      [] line = 288 -> <<"21", FeaturePoolLayer(nt["20"], 2)>>

(* The combination with the auxiliary input left out of the concatenation. *)
jeffrey_df_combine_single(line, nt, batch_size) ==
    CASE line = 289 -> <<"22", InputLayer(<<BatchDim(batch_size), 2>>)>>
      [] line = 290 -> <<"23", ConcatLayer(nt["21"], nt["21"])>>
      [] line = 292 -> <<"24", ReshapeLayer(nt["23"], nt["23"].output_shape[2] * 2)>>
      [] line = 293 -> <<"25", DropoutLayer(nt["24"], 5)>>
      [] line = 294 -> <<"26", DenseLayer(nt["25"], 1024, "none")>>
      [] line = 298 -> <<"27", FeaturePoolLayer(nt["26"], 2)>>

(* jeffrey_df, the auxiliary input and the pairing of the two eyes *)
jeffrey_df_combine(line, nt, batch_size) ==
    CASE line = 289 -> <<"22", InputLayer(<<BatchDim(batch_size), 2>>)>>
      [] line = 290 -> <<"23", ConcatLayer(nt["21"], nt["22"])>>
      [] line = 292 -> <<"24", ReshapeLayer(nt["23"], nt["23"].output_shape[2] * 2)>>
      [] line = 293 -> <<"25", DropoutLayer(nt["24"], 5)>>
      [] line = 294 -> <<"26", DenseLayer(nt["25"], 1024, "none")>>
      [] line = 298 -> <<"27", FeaturePoolLayer(nt["26"], 2)>>

(* The class scores left in rows of two images. *)
jeffrey_df_classify_paired(line, nt, n_classes) ==
    CASE line = 299 -> <<"28", DropoutLayer(nt["27"], 5)>>
      [] line = 300 -> <<"29", DenseLayer(nt["28"], n_classes * 2, "none")>>
      [] line = 307 -> <<"30", ReshapeLayer(nt["29"], n_classes * 2)>>
      [] line = 308 -> <<"31", NonlinearityLayer(nt["30"], "softmax")>>

(* jeffrey_df, the class scores, one row per image again *)
jeffrey_df_classify(line, nt, n_classes) ==
    CASE line = 299 -> <<"28", DropoutLayer(nt["27"], 5)>>
      [] line = 300 -> <<"29", DenseLayer(nt["28"], n_classes * 2, "none")>>
      [] line = 307 -> <<"30", ReshapeLayer(nt["29"], n_classes)>>
      [] line = 308 -> <<"31", NonlinearityLayer(nt["30"], "softmax")>>

jeffrey_df(line, nt, n_classes, batch_size) ==
    IF line <= 288 THEN jeffrey_df_features(line, nt, batch_size)
    ELSE IF line <= 298 THEN jeffrey_df_combine(line, nt, batch_size)
    ELSE jeffrey_df_classify(line, nt, n_classes)

(* The source lines of each constructor's layer statements, in order. *)
JeffreyLines ==
    <<210, 212, 217, 218, 223, 228, 229, 234, 239, 240, 245, 250, 255, 260, 261, 266, 271, 276, 281, 283, 284, 288,
      289, 290, 292, 293, 294, 298, 299, 300, 307, 308>>

----------------------------------------------------------------------------
(* Control flow of the constructors, by source line. *)

Fns == {"vgg19", "vgg19_fc7_to_prob", "vgg19_fc8_to_prob", "jeffrey_df"}

FirstLine(fn) ==
    CASE fn = "vgg19" -> 55
      [] fn = "vgg19_fc7_to_prob" -> 122
      [] fn = "vgg19_fc8_to_prob" -> 160
      [] fn = "jeffrey_df" -> 210

(* the line of "if filename is not None" *)
CheckLine(fn) ==
    CASE fn = "vgg19" -> 92
      [] fn = "vgg19_fc7_to_prob" -> 127
      [] fn = "vgg19_fc8_to_prob" -> 165
      [] fn = "jeffrey_df" -> 310

(* the line of "return net" *)
ReturnLine(fn) ==
    CASE fn = "vgg19" -> 95
      [] fn = "vgg19_fc7_to_prob" -> 130
      [] fn = "vgg19_fc8_to_prob" -> 168
      [] fn = "jeffrey_df" -> 315

(* the line of "if p is None", in vgg19 only *)
BranchLine == 79

IndexOf(seq, x) == CHOOSE i \in 1..Len(seq) : seq[i] = x

(* The line control reaches after the layer statement at `line`. *)
Successor(fn, line) ==
    CASE fn = "vgg19" ->
           (CASE line < 77 -> line + 1
              [] line = 77 -> BranchLine
              [] line = 80 -> 81
              [] line = 81 -> 90
              [] line \in 85..87 -> line + 1
              [] line = 88 -> 90
              [] line = 90 -> 92)
      [] fn = "vgg19_fc7_to_prob" -> IF line = 125 THEN 127 ELSE line + 1
      [] fn = "vgg19_fc8_to_prob" ->
           (CASE line = 160 -> 161 [] line = 161 -> 163 [] line = 163 -> 165)
      [] fn = "jeffrey_df" ->
           IF line = 308 THEN 310
           ELSE JeffreyLines[IndexOf(JeffreyLines, line) + 1]

(* The statement of constructor a.fn at `line`. *)
Stmt(a, line, nt) ==
    CASE a.fn = "vgg19" -> vgg19(line, nt, a.n_classes, a.p)
      [] a.fn = "vgg19_fc7_to_prob" -> vgg19_fc7_to_prob(line, nt, a.n_classes)
      [] a.fn = "vgg19_fc8_to_prob" -> vgg19_fc8_to_prob(line, nt, a.n_classes)
      [] a.fn = "jeffrey_df" -> jeffrey_df(line, nt, a.n_classes, a.batch_size)

(* The last dense or reshape layer instead of the softmax layer. *)
LoadTarget_scores(fn) == IF fn = "jeffrey_df" THEN "30" ELSE "fc8"

(* The layer the constructor hands to the weight loading. *)
LoadTarget(fn) == IF fn = "jeffrey_df" THEN "31" ELSE "prob"

EmptyNet == [k \in {} |-> k]

(* net[key] = layer: the layer is known by its key from now on. *)
Put(nt, key, layer) == nt @@ (key :> [layer EXCEPT !.key = key])

(* The whole construction, from `line` on: the dictionary and the creation *)
(* order when control reaches the filename check, or failed when a layer   *)
(* constructor raised.                                                     *)
RECURSIVE BuildFrom(_, _, _, _)
BuildFrom(a, line, nt, ord) ==
    IF line = CheckLine(a.fn) THEN [ok |-> TRUE, net |-> nt, order |-> ord]
    ELSE IF a.fn = "vgg19" /\ line = BranchLine
         THEN BuildFrom(a, vgg19_branch(a.p), nt, ord)
    ELSE LET st == Stmt(a, line, nt)
         IN IF IsError(st[2]) THEN [ok |-> FALSE, net |-> nt, order |-> ord]
            ELSE BuildFrom(a, Successor(a.fn, line), Put(nt, st[1], st[2]),
                           Append(ord, st[1]))

Build(a) == BuildFrom(a, FirstLine(a.fn), EmptyNet, <<>>)

----------------------------------------------------------------------------
(* Parameters and their values. *)

Range(seq) == {seq[i] : i \in 1..Len(seq)}

(* lasagne.layers.get_all_layers: the layers below `key`, inputs first. *)
RECURSIVE Visit(_, _, _)
RECURSIVE VisitAll(_, _, _)
Visit(nt, key, acc) ==
    IF key \in Range(acc) THEN acc
    ELSE Append(VisitAll(nt, nt[key].input_layers, acc), key)
VisitAll(nt, keys, acc) ==
    IF keys = <<>> THEN acc
    ELSE VisitAll(nt, Tail(keys), Visit(nt, Head(keys), acc))

get_all_layers(nt, key) == Visit(nt, key, <<>>)

RECURSIVE Flatten(_)
Flatten(seqs) == IF seqs = <<>> THEN <<>> ELSE Head(seqs) \o Flatten(Tail(seqs))

(* The parameters of one layer, as <<key, name>>, in the layer's order. *)
LayerParams(l) == [i \in 1..Len(l.params) |-> <<l.key, l.params[i].name>>]

(* lasagne.layers.get_all_params *)
get_all_params(nt, key) ==
    LET ls == get_all_layers(nt, key)
    IN Flatten([i \in 1..Len(ls) |-> LayerParams(nt[ls[i]])])

ParamShape(nt, q) ==
    LET l == nt[q[1]]
        i == CHOOSE j \in 1..Len(l.params) : l.params[j].name = q[2]
    IN l.params[i].shape

(* The shapes of the parameters below `key`, in get_all_params order. *)
ParamShapes(nt, key) ==
    LET ps == get_all_params(nt, key)
    IN [i \in 1..Len(ps) |-> ParamShape(nt, ps[i])]

Array(shape, data) == [type |-> "ndarray", shape |-> shape, data |-> data]

(* A fresh parameter's value: the initialiser's, data 0. *)
InitArray(shape) == Array(shape, 0)

InitValues(l) ==
    [q \in Range(LayerParams(l)) |-> InitArray(ParamShape(l.key :> l, q))]

(* The initial values of all parameters of a complete dictionary. *)
InitValuesOf(nt) ==
    [q \in UNION {Range(LayerParams(nt[k])) : k \in DOMAIN nt} |->
       InitArray(ParamShape(nt, q))]

----------------------------------------------------------------------------
(* Shapes at run time, for a batch of B rows fed to every input layer.     *)

Shape(shape) == [kind |-> "shape", shape |-> shape]

(* The shape layer `key` produces: the batch dimension flows through every *)
(* layer but a reshape, which redistributes the elements, and a concat,    *)
(* whose inputs must agree in it.                                          *)
RECURSIVE RunShape(_, _, _)
RunShape(nt, key, B) ==
    LET l == nt[key]
        ins == [i \in 1..Len(l.input_layers) |-> RunShape(nt, l.input_layers[i], B)]
    IN IF l.kind = "input" THEN Shape([l.output_shape EXCEPT ![1] = B])
       ELSE IF \E i \in 1..Len(ins) : IsError(ins[i]) THEN Error("ValueError")
       ELSE IF l.kind = "concat"
            THEN (IF ins[1].shape[1] # ins[2].shape[1] THEN Error("ValueError")
                  ELSE Shape(<<ins[1].shape[1],
                               ins[1].shape[2] + ins[2].shape[2]>>))
       ELSE IF l.kind = "reshape"
            THEN ReshapeShape(ins[1].shape, l.output_shape[2])
       ELSE Shape([l.output_shape EXCEPT ![1] = ins[1].shape[1]])

(* Row-major reshape of a matrix with icols columns into rows of ocols:    *)
(* the input position <<row, column>> of output element (r, c), from 0.    *)
ReshapeSource(icols, ocols, r, c) ==
    LET flat == r * ocols + c
    IN <<flat \div icols, flat % icols>>

----------------------------------------------------------------------------
(* Python objects a file can hold, and lasagne's set_all_param_values. *)

PyList(items) == [type |-> "list", items |-> items]
PyDict(keys, vals) == [type |-> "dict", keys |-> keys, vals |-> vals]
PyStr(str) == [type |-> "str", str |-> str]

(* len(o) *)
PyLen(o) == IF o.type = "list" THEN Len(o.items) ELSE Len(o.keys)

(* the elements iterating over o yields: a dictionary yields its keys *)
PyIter(o) ==
    IF o.type = "list" THEN o.items
    ELSE [i \in 1..Len(o.keys) |-> PyStr(o.keys[i])]

(* lasagne's set_all_param_values is library code outside this source; it *)
(* is modelled with the count check and the per-parameter shape check the  *)
(* specification's "format/shape mismatch" failure describes.              *)
(* The loop of set_all_param_values from position i on: a value that is   *)
(* no array or has another shape than its parameter raises, and the        *)
(* parameters before it keep the values already set.                      *)
RECURSIVE SetFrom(_, _, _, _)
SetFrom(params, items, i, vals) ==
    IF i > Len(params) THEN [values |-> vals, exc |-> ""]
    ELSE IF items[i].type # "ndarray"
         THEN [values |-> vals, exc |-> "AttributeError"]
    ELSE IF vals[params[i]].shape # items[i].shape
         THEN [values |-> vals, exc |-> "ValueError"]
    ELSE SetFrom(params, items, i + 1, [vals EXCEPT ![params[i]] = items[i]])

(* A length check that only refuses too many values. *)
set_all_param_values_short(nt, vals, layer, obj) ==
    LET params == get_all_params(nt, layer)
    IN IF PyLen(obj) > Len(params) THEN [values |-> vals, exc |-> "ValueError"]
       ELSE SetFrom(SubSeq(params, 1, PyLen(obj)), PyIter(obj), 1, vals)

set_all_param_values(nt, vals, layer, obj) ==
    LET params == get_all_params(nt, layer)
    IN IF PyLen(obj) # Len(params) THEN [values |-> vals, exc |-> "ValueError"]
       ELSE SetFrom(params, PyIter(obj), 1, vals)

----------------------------------------------------------------------------
(* load_weights and the inline load of jeffrey_df.  A file's content is    *)
(* [format |-> "npz", files, arrays], [format |-> "pkl", obj] or           *)
(* [format |-> "missing"].  The result of a load: the names handed to      *)
(* open or np.load, the number of set_all_param_values calls, the values   *)
(* afterwards and the exception raised ("" when none).                     *)

(* A suffix test that accepts the suffix anywhere in the name. *)
EndsWith_anywhere(str, suffix) ==
    \E k \in 1..Len(str) :
        /\ k + Len(suffix) - 1 <= Len(str)
        /\ SubSeq(str, k, k + Len(suffix) - 1) = suffix

(* str.endswith: an exact, case-sensitive comparison of the tail *)
EndsWith(str, suffix) ==
    /\ Len(str) >= Len(suffix)
    /\ SubSeq(str, Len(str) - Len(suffix) + 1, Len(str)) = suffix

(* 'arr_%d' % i *)
ArrKey(i) == "arr_" \o ToString(i)

Outcome(names, n, vals, e) ==
    [opened |-> names, passes |-> n, values |-> vals, exc |-> e]

(* The arrays taken in the archive's stored order instead of by index. *)
NpzParamValues_stored(f) == [i \in 1..Len(f.files) |-> f.arrays[f.files[i]]]

(* param_values = [f['arr_%d' % i] for i in range(len(f.files))] *)
NpzParamValues(f) == [i \in 1..Len(f.files) |-> f.arrays[ArrKey(i - 1)]]

(* the branch for '.npz' *)
load_npz(nt, vals, layer, filename, content) ==
    IF content.format = "missing" THEN Outcome(<<filename>>, 0, vals, "IOError")
    ELSE IF content.format # "npz"
         THEN Outcome(<<filename>>, 0, vals, "AttributeError")
    ELSE IF \E i \in 1..Len(content.files) : ArrKey(i - 1) \notin DOMAIN content.arrays
         THEN Outcome(<<filename>>, 0, vals, "KeyError")
    ELSE LET r == set_all_param_values(nt, vals, layer,
                                       PyList(NpzParamValues(content)))
         IN Outcome(<<filename>>, 1, r.values, r.exc)

(* the branch for '.pkl'; the file is opened in text mode, which           *)
(* pickle.load reads as under Python 2                                     *)
load_pkl(nt, vals, layer, filename, content) ==
    IF content.format = "missing" THEN Outcome(<<filename>>, 0, vals, "IOError")
    ELSE IF content.format # "pkl"
         THEN Outcome(<<filename>>, 0, vals, "UnpicklingError")
    ELSE IF content.obj.type # "dict"
         THEN Outcome(<<filename>>, 0, vals, "TypeError")
    ELSE IF "param values" \notin DOMAIN content.obj.vals
         THEN Outcome(<<filename>>, 0, vals, "KeyError")
    ELSE LET r == set_all_param_values(nt, vals, layer,
                                       content.obj.vals["param values"])
         IN Outcome(<<filename>>, 1, r.values, r.exc)

load_weights(nt, vals, layer, filename, content) ==
    IF EndsWith(filename, ".npz") THEN load_npz(nt, vals, layer, filename, content)
    ELSE IF EndsWith(filename, ".pkl")
         THEN load_pkl(nt, vals, layer, filename, content)
    ELSE Outcome(<<>>, 0, vals, "NotImplementedError")

(* jeffrey_df loading through load_weights, as the VGG constructors do. *)
jeffrey_df_load_dispatch(nt, vals, layer, filename, content) ==
    load_weights(nt, vals, layer, filename, content)

(* jeffrey_df: open(filename, 'r'), pickle.load, set_all_param_values *)
jeffrey_df_load(nt, vals, layer, filename, content) ==
    IF content.format = "missing" THEN Outcome(<<filename>>, 0, vals, "IOError")
    ELSE IF content.format # "pkl"
         THEN Outcome(<<filename>>, 0, vals, "UnpicklingError")
    ELSE LET r == set_all_param_values(nt, vals, layer, content.obj)
         IN Outcome(<<filename>>, 1, r.values, r.exc)

(* The weight loading the constructor fn runs. *)
ConstructorLoad(fn, nt, vals, layer, filename, content) ==
    IF fn = "jeffrey_df" THEN jeffrey_df_load(nt, vals, layer, filename, content)
    ELSE load_weights(nt, vals, layer, filename, content)

----------------------------------------------------------------------------
(* The environment: the file names a caller may pass and what the file     *)
(* may hold when it is read.  Lists of arrays are taken relative to the    *)
(* shapes the graph expects: the exact list, one array short, one array    *)
(* long, and a wrong shape at the first or the last position.  Stored      *)
(* arrays carry data 1, 2, ... in list order.                              *)

FileNames == {"w.npz", "w.pkl", "w.NPZ", "w.dat", "npz", "w.pkl.gz"}

Exact(shapes) == [i \in 1..Len(shapes) |-> Array(shapes[i], i)]

WrongShapeAt(l, k) == [l EXCEPT ![k].shape = Append(@, 1)]

Lists(shapes) ==
    LET l == Exact(shapes)
        n == Len(l)
    IN {l, SubSeq(l, 1, n - 1), Append(l, Array(<<1>>, n + 1)),
        WrongShapeAt(l, 1), WrongShapeAt(l, n)}

Reverse(seq) == [i \in 1..Len(seq) |-> seq[Len(seq) + 1 - i]]

(* An .npz archive of list l under keys prefix0, prefix1, ..., its member   *)
(* names listed in stored order.                                           *)
NpzFile(l, prefix, reversed) ==
    LET key(i) == prefix \o ToString(i - 1)
        keys == [i \in 1..Len(l) |-> key(i)]
    IN [format |-> "npz",
        files |-> IF reversed THEN Reverse(keys) ELSE keys,
        arrays |-> [k \in Range(keys) |-> l[IndexOf(keys, k)]]]

PklFile(obj) == [format |-> "pkl", obj |-> obj]

Contents(shapes) ==
    {[format |-> "missing"]}
    \cup {NpzFile(l, "arr_", r) : l \in Lists(shapes), r \in BOOLEAN}
    \cup {NpzFile(Exact(shapes), "param_", FALSE)}
    \cup {PklFile(PyList(l)) : l \in Lists(shapes)}
    \cup {PklFile(PyDict(<<"param values">>, "param values" :> PyList(l))) :
            l \in Lists(shapes)}
    \cup {PklFile(PyDict(<<"values", "param values">>,
                         ("values" :> PyList(<<>>)) @@
                         ("param values" :> PyList(Exact(shapes)))))}
    \cup {PklFile(PyDict(<<"param_values">>,
                         "param_values" :> PyList(Exact(shapes))))}

Calls ==
    [fn : {"vgg19"}, filename : {None} \cup {Some(f) : f \in FileNames},
     n_classes : 1..MaxClasses, p : {None} \cup {Some(v) : v \in PValues},
     batch_size : {None}]
    \cup
    [fn : {"vgg19_fc7_to_prob", "vgg19_fc8_to_prob"},
     filename : {None} \cup {Some(f) : f \in FileNames},
     n_classes : 1..MaxClasses, p : {None}, batch_size : {None}]
    \cup
    [fn : {"jeffrey_df"}, filename : {None} \cup {Some(f) : f \in FileNames},
     n_classes : 1..MaxClasses, p : {None},
     batch_size : {None} \cup {Some(b) : b \in 1..MaxBatch}]

----------------------------------------------------------------------------
(* The state machine. *)

Idle == [fn |-> "", line |-> 0, status |-> "idle"]

NoArgs == [fn |-> "", filename |-> None, n_classes |-> 0, p |-> None,
           batch_size |-> None]

Unread == [format |-> "unread"]

Init ==
    /\ pc = Idle
    /\ args = NoArgs
    /\ net = EmptyNet
    /\ order = <<>>
    /\ values = EmptyNet
    /\ disk = Unread
    /\ opened = <<>>
    /\ passes = 0
    /\ loads = <<>>
    /\ exc = ""

Running == pc.status = "running"

LayerLines(fn) ==
    CASE fn = "vgg19" -> (55..77) \cup {80, 81, 85, 86, 87, 88, 90}
      [] fn = "vgg19_fc7_to_prob" -> 122..125
      [] fn = "vgg19_fc8_to_prob" -> {160, 161, 163}
      [] fn = "jeffrey_df" -> Range(JeffreyLines)

(* A caller calls one of the constructors. *)
Call ==
    /\ pc.status = "idle"
    /\ \E a \in Calls :
         /\ args' = a
         /\ pc' = [fn |-> a.fn, line |-> FirstLine(a.fn), status |-> "running"]
    /\ UNCHANGED <<net, order, values, disk, opened, passes, loads, exc>>

(* net[key] = SomeLayer(...): the layer joins the dictionary with fresh    *)
(* parameters, or its constructor raises and the call ends.                *)
Assign ==
    /\ Running
    /\ pc.line \in LayerLines(pc.fn)
    /\ LET st == Stmt(args, pc.line, net)
       IN IF IsError(st[2])
          THEN /\ pc' = [pc EXCEPT !.status = "raised"]
               /\ exc' = st[2].exc
               /\ UNCHANGED <<net, order, values>>
          ELSE /\ net' = Put(net, st[1], st[2])
               /\ order' = Append(order, st[1])
               /\ values' = values @@ InitValues([st[2] EXCEPT !.key = st[1]])
               /\ pc' = [pc EXCEPT !.line = Successor(pc.fn, pc.line)]
               /\ UNCHANGED exc
    /\ UNCHANGED <<args, disk, opened, passes, loads>>

(* vgg19: if p is None *)
Branch ==
    /\ Running
    /\ pc.fn = "vgg19"
    /\ pc.line = BranchLine
    /\ pc' = [pc EXCEPT !.line = vgg19_branch(args.p)]
    /\ UNCHANGED <<args, net, order, values, disk, opened, passes, loads, exc>>

(* if filename is not None *)
CheckFilename ==
    /\ Running
    /\ pc.line = CheckLine(pc.fn)
    /\ pc' = [pc EXCEPT !.line = IF args.filename # None THEN CheckLine(pc.fn) + 1
                                 ELSE ReturnLine(pc.fn)]
    /\ UNCHANGED <<args, net, order, values, disk, opened, passes, loads, exc>>

(* The weight loading: load_weights(net['prob'], filename) in the VGG      *)
(* constructors, the inline load in jeffrey_df.  The file holds whatever   *)
(* it holds when it is read.                                               *)
Load ==
    /\ Running
    /\ pc.line = CheckLine(pc.fn) + 1
    /\ \E c \in Contents(ParamShapes(net, LoadTarget(pc.fn))) :
         LET r == ConstructorLoad(pc.fn, net, values, LoadTarget(pc.fn),
                                  Val(args.filename), c)
         IN /\ disk' = IF r.opened = <<>> THEN disk ELSE c
            /\ opened' = opened \o r.opened
            /\ passes' = passes + r.passes
            /\ loads' = Append(loads, LoadTarget(pc.fn))
            /\ values' = r.values
            /\ exc' = r.exc
            /\ pc' = IF r.exc = "" THEN [pc EXCEPT !.line = ReturnLine(pc.fn)]
                     ELSE [pc EXCEPT !.status = "raised"]
    /\ UNCHANGED <<args, net, order>>

(* return net *)
Return ==
    /\ Running
    /\ pc.line = ReturnLine(pc.fn)
    /\ pc' = [pc EXCEPT !.status = "returned"]
    /\ UNCHANGED <<args, net, order, values, disk, opened, passes, loads, exc>>

Next == Call \/ Assign \/ Branch \/ CheckFilename \/ Load \/ Return

Spec == Init /\ [][Next]_vars

----------------------------------------------------------------------------
(* Vocabulary of the properties. *)

VGG == {"vgg19", "vgg19_fc7_to_prob", "vgg19_fc8_to_prob"}

Returned == pc.status = "returned"
Raised == pc.status = "raised"
Ended == Returned \/ Raised

(* A weight loading has run. *)
Loaded == loads # <<>>

(* str has suf as its tail: some split of str leaves exactly suf. *)
HasSuffix(str, suf) == \E k \in 0..Len(str) : SubSeq(str, k + 1, Len(str)) = suf

FileName == Val(args.filename)

OtherSuffix == ~HasSuffix(FileName, ".npz") /\ ~HasSuffix(FileName, ".pkl")

(* No parameter holds anything but its initial value. *)
NothingAssigned == \A q \in DOMAIN values : values[q].data = 0

(* The trainable parameters in creation order of their layers, weight     *)
(* before bias.                                                            *)
ParamsInOrder ==
    Flatten([i \in 1..Len(order) |->
               [j \in 1..Len(net[order[i]].params) |->
                  <<order[i], net[order[i]].params[j].name>>]])

(* The file is an archive holding exactly arr_0 .. arr_(n-1). *)
IndexKeyed(n) ==
    /\ disk.format = "npz"
    /\ Len(disk.files) = n
    /\ DOMAIN disk.arrays = {"arr_" \o ToString(i) : i \in 0..(n - 1)}

(* C1: load_weights with a file name ending in neither '.npz' nor '.pkl'   *)
(* (compared case-sensitively) ends in NotImplementedError, and on that    *)
(* path no file is opened or read and no parameter is assigned.            *)
C1_UnknownFormatRejected ==
    (pc.fn \in VGG /\ Loaded /\ OtherSuffix) =>
        /\ Raised
        /\ exc = "NotImplementedError"
        /\ opened = <<>>
        /\ disk = Unread
        /\ passes = 0
        /\ NothingAssigned

C1_Witness ==
    /\ pc.fn \in VGG
    /\ Loaded
    /\ FileName = "w.NPZ"
    /\ exc = "NotImplementedError"

(* C2: a successful load_weights takes the format from the suffix alone    *)
(* and assigns by position: from an '.npz' file the i-th parameter gets    *)
(* the array under 'arr_i' whatever the stored order of the keys (and a    *)
(* file holding exactly those arrays in the expected shapes does load);    *)
(* from a '.pkl' file it gets the i-th element of the 'param values'       *)
(* entry; and exactly one assignment pass is made.                         *)
C2_PositionalAssignment ==
    (pc.fn \in VGG /\ Loaded) =>
        LET ps == ParamsInOrder
            n == Len(ps)
        IN /\ (exc = "" /\ HasSuffix(FileName, ".npz")) =>
                /\ IndexKeyed(n)
                /\ \A i \in 0..(n - 1) :
                     values[ps[i + 1]] = disk.arrays["arr_" \o ToString(i)]
           /\ (exc = "" /\ HasSuffix(FileName, ".pkl")) =>
                /\ disk.format = "pkl"
                /\ disk.obj.type = "dict"
                /\ values = [q \in DOMAIN values |->
                               disk.obj.vals["param values"].items[IndexOf(ps, q)]]
           /\ (HasSuffix(FileName, ".npz") /\ IndexKeyed(n)
                 /\ \A i \in 0..(n - 1) :
                      disk.arrays["arr_" \o ToString(i)].shape
                        = ParamShape(net, ps[i + 1]))
                => exc = ""
           /\ exc = "" => (passes = 1 /\ Len(opened) = 1 /\ ~OtherSuffix)

C2_Witness ==
    /\ pc.fn \in VGG
    /\ Returned
    /\ passes = 1
    /\ disk.format = "npz"
    /\ disk.files[1] # "arr_0"
    /\ values[ParamsInOrder[1]] = disk.arrays["arr_0"]
    /\ values[ParamsInOrder[1]].data = 1

(* The values a load takes from the file it read, None when the file does *)
(* not hold a list of values where the constructor looks for one.          *)
FileValues ==
    IF opened = <<>> \/ disk.format \in {"missing", "unread"} THEN None
    ELSE IF pc.fn = "jeffrey_df"
         THEN (IF disk.format = "pkl" /\ disk.obj.type = "list"
               THEN Some(disk.obj.items) ELSE None)
    ELSE IF HasSuffix(FileName, ".npz")
         THEN (IF IndexKeyed(Len(disk.files))
               THEN Some([i \in 1..Len(disk.files) |->
                            disk.arrays["arr_" \o ToString(i - 1)]])
               ELSE None)
    ELSE IF /\ disk.format = "pkl"
            /\ disk.obj.type = "dict"
            /\ "param values" \in DOMAIN disk.obj.vals
         THEN Some(disk.obj.vals["param values"].items)
    ELSE None

(* The file's values differ from the graph's parameters in count or shape. *)
Mismatch ==
    /\ FileValues # None
    /\ LET l == Val(FileValues)
           ps == ParamsInOrder
       IN \/ Len(l) # Len(ps)
          \/ \E i \in 1..Len(ps) : l[i].shape # ParamShape(net, ps[i])

(* C3, as claimed: all four constructors choose the format by extension    *)
(* as load_weights does, so a file name with another extension is refused  *)
(* with NotImplementedError before any file is opened.                     *)
C3_AllFourDispatch ==
    (Loaded /\ OtherSuffix) => (exc = "NotImplementedError" /\ opened = <<>>)

(* C3, amended: the three VGG constructors choose the format by extension  *)
(* ('.npz' read as index-keyed arrays, '.pkl' as a dictionary whose        *)
(* 'param values' entry is assigned, anything else refused before a file   *)
(* is opened); jeffrey_df opens the file whatever its extension, unpickles *)
(* it and assigns the unpickled list itself.                               *)
C3_VGGDispatchJeffreyInline ==
    Loaded =>
        /\ (pc.fn \in VGG /\ OtherSuffix) =>
               (exc = "NotImplementedError" /\ opened = <<>>)
        /\ (pc.fn \in VGG /\ ~OtherSuffix) =>
               /\ opened = <<FileName>>
               /\ exc # "NotImplementedError"
               /\ exc = "" => /\ FileValues # None
                              /\ disk.format =
                                   (IF HasSuffix(FileName, ".npz") THEN "npz"
                                    ELSE "pkl")
        /\ pc.fn = "jeffrey_df" =>
               /\ opened = <<FileName>>
               /\ exc # "NotImplementedError"
               /\ exc = "" =>
                    /\ disk.format = "pkl"
                    /\ disk.obj.type = "list"
                    /\ values = [q \in DOMAIN values |->
                                   disk.obj.items[IndexOf(ParamsInOrder, q)]]

C3_Witness ==
    /\ pc.fn = "jeffrey_df"
    /\ Returned
    /\ Loaded
    /\ FileName = "w.dat"
    /\ passes = 1
    /\ ~NothingAssigned

(* C4: when the file's parameter count or any shape differs from what the  *)
(* graph expects, the load ends in an error that ends the constructor:     *)
(* the call is never returned from and the error is never cleared.         *)
C4_MismatchIsFatal ==
    (Loaded /\ Mismatch) =>
        /\ Raised
        /\ exc = "ValueError"
        /\ passes = 1

C4_Witness ==
    /\ Loaded
    /\ Mismatch
    /\ Raised
    /\ Len(Val(FileValues)) = Len(ParamsInOrder)
    /\ ~NothingAssigned

(* The number of layers each constructor creates. *)
LayerCount ==
    CASE args.fn = "vgg19" -> IF args.p = None THEN 26 ELSE 28
      [] args.fn = "vgg19_fc7_to_prob" -> 4
      [] args.fn = "vgg19_fc8_to_prob" -> 3
      [] args.fn = "jeffrey_df" -> 32
      [] OTHER -> 0

AllLayersCreated == Cardinality(DOMAIN net) = LayerCount /\ Len(order) = LayerCount

(* C5, as claimed: a call with a file name attempts exactly one load,      *)
(* whatever else happens in the call.                                      *)
C5_LoadWheneverNamed ==
    (Ended /\ args.filename # None) => Len(loads) = 1

(* C5, amended: with filename None no file is opened and nothing is        *)
(* assigned from a file; with a file name, once every layer has been       *)
(* created exactly one load is attempted, only then, on the final softmax  *)
(* layer ('prob', '31' in jeffrey_df), below which every trainable         *)
(* parameter lies; a call whose layer construction fails (jeffrey_df with  *)
(* an odd batch_size, at layer '24') ends before any load.                 *)
C5_LoadAfterConstruction ==
    /\ args.filename = None =>
         /\ loads = <<>>
         /\ opened = <<>>
         /\ disk = Unread
         /\ passes = 0
         /\ NothingAssigned
    /\ Loaded =>
         /\ Len(loads) = 1
         /\ Len(opened) <= 1
         /\ passes <= 1
         /\ AllLayersCreated
         /\ loads[1] = order[Len(order)]
         /\ loads[1] = (IF pc.fn = "jeffrey_df" THEN "31" ELSE "prob")
         /\ net[loads[1]].nonlinearity = "softmax"
         /\ Range(get_all_params(net, loads[1])) = DOMAIN values
    /\ (Ended /\ args.filename # None /\ AllLayersCreated) => Len(loads) = 1
    /\ (Ended /\ args.filename # None /\ ~Loaded) =>
         /\ pc.fn = "jeffrey_df"
         /\ pc.line = 292
         /\ args.batch_size # None
         /\ Val(args.batch_size) % 2 = 1
         /\ exc = "ValueError"

C5_Witness ==
    /\ Returned
    /\ Loaded
    /\ pc.fn = "vgg19"
    /\ Cardinality(DOMAIN net) = 28
    /\ passes = 1

(* The final layer's key. *)
FinalKey == IF pc.fn = "jeffrey_df" THEN "31" ELSE "prob"

(* C6: in each returned graph the last layer is a softmax nonlinearity     *)
(* without parameters whose rows have n_classes entries; in jeffrey_df the *)
(* dense layer before it has 2 * n_classes units, reshaped to rows of      *)
(* n_classes.                                                              *)
C6_SoftmaxOverClasses ==
    Returned =>
        LET last == net[FinalKey]
        IN /\ order[Len(order)] = FinalKey
           /\ last.kind = "nonlinearity"
           /\ last.nonlinearity = "softmax"
           /\ last.params = <<>>
           /\ \A q \in DOMAIN values : q[1] # FinalKey
           /\ Len(last.output_shape) = 2
           /\ last.output_shape[2] = args.n_classes
           /\ pc.fn = "jeffrey_df" =>
                /\ net["29"].kind = "dense"
                /\ net["29"].output_shape[2] = 2 * args.n_classes
                /\ net["30"].kind = "reshape"
                /\ net["30"].input_layers = <<"29">>
                /\ net["30"].output_shape[2] = args.n_classes
                /\ last.input_layers = <<"30">>

C6_Witness ==
    /\ Returned
    /\ pc.fn = "vgg19_fc8_to_prob"
    /\ args.n_classes = 2
    /\ net["prob"].output_shape = <<NoneDim, 2>>

(* vgg19 called with the other choice of dropout: p not None for None and  *)
(* None for not None.                                                      *)
OtherP == Build([args EXCEPT !.p = IF args.p = None THEN Some(5) ELSE None]).net

Dropouts == {"dropout1", "dropout2"}

(* C7: vgg19 has dropout layers exactly when p is not None, p = 0          *)
(* included: without, no 'dropout1' or 'dropout2' key and fc6 -> fc7 ->    *)
(* fc8; with, both keys, each of probability p, and fc6 -> dropout1 -> fc7 *)
(* -> dropout2 -> fc8; all other keys and edges are the same in both.      *)
C7_DropoutIffP ==
    (pc.fn = "vgg19" /\ Returned) =>
        /\ args.p = None =>
             /\ Dropouts \cap DOMAIN net = {}
             /\ net["fc7"].input_layers = <<"fc6">>
             /\ net["fc8"].input_layers = <<"fc7">>
        /\ args.p # None =>
             /\ Dropouts \subseteq DOMAIN net
             /\ \A d \in Dropouts : net[d].kind = "dropout" /\ net[d].p = args.p
             /\ net["dropout1"].input_layers = <<"fc6">>
             /\ net["fc7"].input_layers = <<"dropout1">>
             /\ net["dropout2"].input_layers = <<"fc7">>
             /\ net["fc8"].input_layers = <<"dropout2">>
        /\ DOMAIN net \ Dropouts = DOMAIN OtherP \ Dropouts
        /\ \A k \in DOMAIN net \ (Dropouts \cup {"fc7", "fc8"}) :
             net[k].input_layers = OtherP[k].input_layers

C7_Witness ==
    /\ pc.fn = "vgg19"
    /\ Returned
    /\ args.p = Some(0)
    /\ "dropout1" \in DOMAIN net
    /\ net["dropout2"].p = Some(0)

(* The layers reachable backwards from the layers of S. *)
RECURSIVE Below(_)
Below(S) ==
    LET T == S \cup UNION {Range(net[k].input_layers) : k \in S}
    IN IF T = S THEN S ELSE Below(T)

(* C8: every layer consumes only layers created before it, so the graph is *)
(* acyclic; the VGG graphs are one chain from 'input' to 'prob'; in        *)
(* jeffrey_df only '23' has more than one predecessor, namely '21' and the *)
(* auxiliary input '22', and every layer lies below '31'.                  *)
C8_GraphShape ==
    /\ \A i \in 1..Len(order) :
         \A k \in Range(net[order[i]].input_layers) :
            \E h \in 1..(i - 1) : order[h] = k
    /\ (Returned /\ pc.fn \in VGG) =>
         /\ order[1] = "input"
         /\ net["input"].kind = "input"
         /\ net["input"].input_layers = <<>>
         /\ order[Len(order)] = "prob"
         /\ \A i \in 2..Len(order) : net[order[i]].input_layers = <<order[i - 1]>>
    /\ (Returned /\ pc.fn = "jeffrey_df") =>
         /\ {k \in DOMAIN net : Len(net[k].input_layers) > 1} = {"23"}
         /\ net["23"].kind = "concat"
         /\ net["23"].input_layers = <<"21", "22">>
         /\ net["22"].kind = "input"
         /\ {k \in DOMAIN net : net[k].input_layers = <<>>} = {"0", "22"}
         /\ Below({"31"}) = DOMAIN net

C8_Witness ==
    /\ Returned
    /\ pc.fn = "jeffrey_df"
    /\ Len(net["23"].input_layers) = 2
    /\ "22" \in Below({"31"})

(* The run-time batch sizes tried. *)
RunBatches == 1..(2 * MaxBatch)

(* C9: in jeffrey_df, for a batch of B images with B even, '23' has B rows *)
(* of 514, '24' has B/2 rows of 1028 made of rows 2k and 2k+1, '29' has    *)
(* B/2 rows of 2 * n_classes and '30' has B rows of n_classes; for B odd   *)
(* the reshape '24' cannot be formed, at construction when the batch size  *)
(* is given there.                                                         *)
C9_ReshapesInverse ==
    /\ (pc.fn = "jeffrey_df" /\ "24" \in DOMAIN net) =>
         (args.batch_size = None \/ Val(args.batch_size) % 2 = 0)
    /\ (pc.fn = "jeffrey_df" /\ Returned) =>
         \A B \in RunBatches :
            (args.batch_size = None \/ Val(args.batch_size) = B) =>
               IF B % 2 = 1 THEN /\ RunShape(net, "23", B) = Shape(<<B, 514>>)
                                 /\ IsError(RunShape(net, "24", B))
               ELSE /\ RunShape(net, "23", B) = Shape(<<B, 514>>)
                    /\ RunShape(net, "24", B) = Shape(<<B \div 2, 1028>>)
                    /\ \A k \in 0..(B \div 2 - 1) : \A c \in 0..1027 :
                         ReshapeSource(514, 1028, k, c) =
                           IF c < 514 THEN <<2 * k, c>> ELSE <<2 * k + 1, c - 514>>
                    /\ RunShape(net, "29", B) = Shape(<<B \div 2, 2 * args.n_classes>>)
                    /\ RunShape(net, "30", B) = Shape(<<B, args.n_classes>>)
                    /\ RunShape(net, "31", B) = Shape(<<B, args.n_classes>>)

C9_Witness ==
    /\ pc.fn = "jeffrey_df"
    /\ Returned
    /\ args.batch_size = None
    /\ RunShape(net, "30", 4) = Shape(<<4, args.n_classes>>)
    /\ RunShape(net, "24", 4) = Shape(<<2, 1028>>)

(* vgg19 built for the same number of classes, without dropout. *)
FullVGG == Build([args EXCEPT !.fn = "vgg19", !.p = None]).net

(* C10: the parameters that weight loading assigns to do not depend on     *)
(* dropout: vgg19 with and without p has the same 38 parameters (weight    *)
(* then bias of 16 convolution and 3 dense layers) in the same order with  *)
(* the same shapes, so values that load into one load into the other; and  *)
(* the parameters of vgg19_fc7_to_prob and of vgg19_fc8_to_prob have the   *)
(* shapes of the last four and the last two of vgg19's.                    *)
C10_ParamsIndependentOfDropout ==
    /\ (pc.fn = "vgg19" /\ Returned) =>
         LET ps == get_all_params(net, "prob")
             sh == ParamShapes(net, "prob")
         IN /\ Len(ps) = 38
            /\ ps = get_all_params(OtherP, "prob")
            /\ sh = ParamShapes(OtherP, "prob")
            /\ \A i \in 1..19 : ps[2 * i - 1][2] = "W" /\ ps[2 * i][2] = "b"
                                  /\ ps[2 * i - 1][1] = ps[2 * i][1]
            /\ Cardinality({k \in DOMAIN net : net[k].kind = "conv"}) = 16
            /\ Cardinality({k \in DOMAIN net : net[k].kind = "dense"}) = 3
            /\ set_all_param_values(OtherP, InitValuesOf(OtherP), "prob",
                                    PyList(Exact(sh))).exc = ""
    /\ (pc.fn = "vgg19_fc7_to_prob" /\ Returned) =>
         ParamShapes(net, "prob") = SubSeq(ParamShapes(FullVGG, "prob"), 35, 38)
    /\ (pc.fn = "vgg19_fc8_to_prob" /\ Returned) =>
         ParamShapes(net, "prob") = SubSeq(ParamShapes(FullVGG, "prob"), 37, 38)

C10_Witness ==
    /\ pc.fn = "vgg19"
    /\ Returned
    /\ args.p # None
    /\ Len(ParamShapes(net, "prob")) = 38
    /\ ParamShapes(net, "prob")[35] = <<4096, 4096>>

====
